---- MODULE Spec2Model ----
(***************************************************************************)
(* espflash error taxonomy (src/espflash/src/error.rs): the transport      *)
(* error classifier, the device status decoder, the stage tagger           *)
(* (ResultExt), the partition table diagnostic, and the command engine     *)
(* that composes them.                                                     *)
(***************************************************************************)
EXTENDS Integers, Sequences, FiniteSets, TLC

VARIABLES low, res, prev, ops,
          raw, decoded,
          table, trailing, source, csvErr, diag,
          estate, ecmd, ephase, budget, sent, log, surfaced

errVars == <<low, res, prev, ops>>
romVars == <<raw, decoded>>
tblVars == <<table, trailing, source, csvErr, diag>>
engVars == <<estate, ecmd, ephase, budget, sent, log, surfaced>>
vars == <<low, res, prev, ops, raw, decoded, table, trailing, source, csvErr,
          diag, estate, ecmd, ephase, budget, sent, log, surfaced>>

----------------------------------------------------------------------------
(* Bounds of the model.                                                    *)

\* longest sequence of flashing()/for_command() calls applied to one outcome
MaxOps == 3
\* rows of a partition table
MaxRows == 3
\* fields of one partition table row
MaxFields == 5
\* largest retry budget (max-attempts) of the command engine
MaxBudget == 3

----------------------------------------------------------------------------
(* Values.                                                                 *)

\* flasher::Command, by name (only the name is used here, for diagnostics)
Commands == {"Sync", "FlashBegin", "FlashData"}

\* Option::None of TimedOutCommand.command
None == "None"

\* TimedOutCommand::default(): command unset
TimedOutCommandDefault == None

\* impl From<Command> for TimedOutCommand: Some(c)
TimedOutCommandFrom(c) == c

\* std::io::ErrorKind, a representative part of the enum
IoKinds == {"TimedOut", "NotFound", "PermissionDenied", "Other"}

\* descriptions carried by the underlying errors
Descs == {"d1", "d2"}

\* serial::Error: kind() is NoDevice, InvalidInput or Io(io::ErrorKind)
SerialError(kind, io, desc) == [kind |-> kind, io |-> io, desc |-> desc]

NoErr == SerialError("-", "-", "-")

SerialErrors ==
    {SerialError("NoDevice", "-", d) : d \in Descs}
      \cup {SerialError("InvalidInput", "-", d) : d \in Descs}
      \cup {SerialError("Io", k, d) : k \in IoKinds, d \in Descs}

\* serial::Error from io::Error (the E: Into<serial::Error> of from_error_kind):
\* kind Io(io kind), the io error's text as description
SerialFromIo(err) == SerialError("Io", err.io, err.desc)

\* a lower-layer error: io::Error, serial::Error, slip_codec::Error, binread::Error
LowError(layer, variant, kind, io, desc) ==
    [layer |-> layer, variant |-> variant, kind |-> kind, io |-> io, desc |-> desc]

NoLow == LowError("-", "-", "-", "-", "-")

IoErrors == {LowError("io", "-", "-", k, d) : k \in IoKinds, d \in Descs}

SerialLowErrors ==
    {LowError("serial", "-", e.kind, e.io, e.desc) : e \in SerialErrors}

SlipVariants == {"FramingError", "OversizedPacket", "ReadError", "EndOfStream"}

SlipErrors ==
    {LowError("slip", v, "-", "-", "-") : v \in SlipVariants \ {"ReadError"}}
      \cup {LowError("slip", "ReadError", "-", k, d) : k \in IoKinds, d \in Descs}

BinreadVariants ==
    {"Io", "BadMagic", "AssertFail", "Custom", "NoVariantMatch", "EnumErrors"}

BinreadErrors ==
    {LowError("binread", v, "-", "-", "-") : v \in BinreadVariants \ {"Io"}}
      \cup {LowError("binread", "Io", "-", k, d) : k \in IoKinds, d \in Descs}

LowErrors == IoErrors \cup SerialLowErrors \cup SlipErrors \cup BinreadErrors

\* the io::Error inside SlipError::ReadError(io) or binread::Error::Io(e)
InnerIo(err) == LowError("io", "-", "-", err.io, err.desc)

\* the serial::Error a serial-layer LowError stands for
AsSerial(err) == SerialError(err.kind, err.io, err.desc)

\* enum ConnectionError
ConnectionError(v, err, cmd) == [v |-> v, err |-> err, cmd |-> cmd]

NoCE == ConnectionError("-", NoErr, "-")

Serial(err) == ConnectionError("Serial", err, "-")
ConnectionFailed == ConnectionError("ConnectionFailed", NoErr, "-")
DeviceNotFound == ConnectionError("DeviceNotFound", NoErr, "-")
Timeout(cmd) == ConnectionError("Timeout", NoErr, cmd)
FramingError == ConnectionError("FramingError", NoErr, "-")
OverSizedPacket == ConnectionError("OverSizedPacket", NoErr, "-")

\* a panic of the conversion (unreachable!())
PanicCE == ConnectionError("PANIC", NoErr, "-")

ConnectionVariants ==
    {"Serial", "ConnectionFailed", "DeviceNotFound", "Timeout", "FramingError",
     "OverSizedPacket"}

ConnectionErrors ==
    {Serial(e) : e \in SerialErrors}
      \cup {ConnectionFailed, DeviceNotFound, FramingError, OverSizedPacket}
      \cup {Timeout(c) : c \in Commands \cup {None}}

\* enum RomError
RomErrors ==
    {"InvalidMessage", "FailedToAct", "InvalidCrc", "FlashWriteError",
     "FlashReadError", "FlashReadLengthError", "DeflateError", "Other"}

\* Result<T, Error>: Ok(_) or Err(Error)
Result(t, ce, rom) == [t |-> t, ce |-> ce, rom |-> rom]

Ok == Result("Ok", NoCE, "-")
Pending == Result("Pending", NoCE, "-")
Panicked == Result("Panic", NoCE, "-")
ErrConnection(ce) == Result("Connection", ce, "-")
ErrFlashing(ce) == Result("Flashing", ce, "-")
ErrRomError(r) == Result("RomError", NoCE, r)

\* the variants of enum Error that carry no connection outcome and no RomError
PlainErrors ==
    {"InvalidElf", "ElfNotRamLoadable", "UnrecognizedChip", "UnsupportedFlash",
     "FlashConnect", "MalformedPartitionTable", "UnsupportedDirectBoot"}

Outcomes ==
    {Ok}
      \cup {ErrConnection(ce) : ce \in ConnectionErrors}
      \cup {ErrFlashing(ce) : ce \in ConnectionErrors}
      \cup {ErrRomError(r) : r \in RomErrors}
      \cup {Result(t, NoCE, "-") : t \in PlainErrors}

----------------------------------------------------------------------------
(* Transport error classifier.                                             *)

\* mutant: the timed-out class is not told apart and falls to Serial
from_error_kind_NoTimeout(kind, err) ==
    CASE kind = "NotFound" -> DeviceNotFound
      [] OTHER -> Serial(err)

\* fn from_error_kind(kind, err); err already seen through Into<serial::Error>
from_error_kind(kind, err) ==
    CASE kind = "TimedOut" -> Timeout(TimedOutCommandDefault)
      [] kind = "NotFound" -> DeviceNotFound
      [] OTHER -> Serial(err)

\* impl From<serial::Error> for ConnectionError
ConnectionErrorFromSerial(err) ==
    CASE err.kind = "Io" -> from_error_kind(err.io, AsSerial(err))
      [] err.kind = "NoDevice" -> DeviceNotFound
      [] OTHER -> Serial(AsSerial(err))

\* impl From<io::Error> for ConnectionError
ConnectionErrorFromIo(err) == from_error_kind(err.io, SerialFromIo(err))

\* impl From<SlipError> for ConnectionError
ConnectionErrorFromSlip(err) ==
    CASE err.variant = "FramingError" -> FramingError
      [] err.variant = "OversizedPacket" -> OverSizedPacket
      [] err.variant = "ReadError" -> ConnectionErrorFromIo(InnerIo(err))
      [] err.variant = "EndOfStream" -> FramingError

\* impl From<binread::Error> for ConnectionError
ConnectionErrorFromBinread(err) ==
    CASE err.variant = "Io" -> ConnectionErrorFromIo(InnerIo(err))
      [] OTHER -> PanicCE

\* the four conversions into ConnectionError, by the layer of the error
ConnectionErrorFrom(err) ==
    CASE err.layer = "serial" -> ConnectionErrorFromSerial(err)
      [] err.layer = "io" -> ConnectionErrorFromIo(err)
      [] err.layer = "slip" -> ConnectionErrorFromSlip(err)
      [] err.layer = "binread" -> ConnectionErrorFromBinread(err)

\* impl From<serial::Error | io::Error | SlipError | binread::Error> for Error:
\* Self::Connection(err.into()); a panic of err.into() unwinds through it
ErrorFrom(err) ==
    LET ce == ConnectionErrorFrom(err)
    IN  IF ce = PanicCE THEN Panicked ELSE ErrConnection(ce)

----------------------------------------------------------------------------
(* Stage tagger: impl ResultExt for Result<T, Error>.                      *)

\* mutant: the tag is swapped instead of set
flashing_Toggle(r) ==
    CASE r.t = "Connection" -> ErrFlashing(r.ce)
      [] r.t = "Flashing" -> ErrConnection(r.ce)
      [] OTHER -> r

\* fn flashing(self)
flashing(r) ==
    CASE r.t = "Connection" -> ErrFlashing(r.ce)
      [] OTHER -> r

\* mutant: the Flashing arm is missing
for_command_ConnectionOnly(r, command) ==
    CASE r.t = "Connection" /\ r.ce.v = "Timeout" ->
            ErrConnection(Timeout(TimedOutCommandFrom(command)))
      [] OTHER -> r

\* mutant: a timeout under the Flashing tag comes back under the Connection tag
for_command_Retag(r, command) ==
    CASE r.t \in {"Connection", "Flashing"} /\ r.ce.v = "Timeout" ->
            ErrConnection(Timeout(TimedOutCommandFrom(command)))
      [] OTHER -> r

\* mutant: an annotation already present is kept
for_command_KeepFirst(r, command) ==
    CASE r.t = "Connection" /\ r.ce.v = "Timeout" /\ r.ce.cmd = None ->
            ErrConnection(Timeout(TimedOutCommandFrom(command)))
      [] r.t = "Flashing" /\ r.ce.v = "Timeout" /\ r.ce.cmd = None ->
            ErrFlashing(Timeout(TimedOutCommandFrom(command)))
      [] OTHER -> r

\* fn for_command(self, command)
for_command(r, command) ==
    CASE r.t = "Connection" /\ r.ce.v = "Timeout" ->
            ErrConnection(Timeout(TimedOutCommandFrom(command)))
      [] r.t = "Flashing" /\ r.ce.v = "Timeout" ->
            ErrFlashing(Timeout(TimedOutCommandFrom(command)))
      [] OTHER -> r

----------------------------------------------------------------------------
(* Device status decoder.                                                  *)

\* mutant: two arms of the match share a result
RomErrorFrom_Slip(b) ==
    CASE b = 5 -> "InvalidMessage"
      [] b = 6 -> "FailedToAct"
      [] b = 7 -> "FlashWriteError"
      [] b = 8 -> "FlashWriteError"
      [] b = 9 -> "FlashReadError"
      [] b = 10 -> "FlashReadLengthError"
      [] b = 11 -> "DeflateError"
      [] OTHER -> "Other"

\* mutant: every code decodes to the catch-all
RomErrorFrom_AllOther(b) == "Other"

\* impl From<u8> for RomError
RomErrorFrom(b) ==
    CASE b = 5 -> "InvalidMessage"
      [] b = 6 -> "FailedToAct"
      [] b = 7 -> "InvalidCrc"
      [] b = 8 -> "FlashWriteError"
      [] b = 9 -> "FlashReadError"
      [] b = 10 -> "FlashReadLengthError"
      [] b = 11 -> "DeflateError"
      [] OTHER -> "Other"

\* #[repr(u8)] enum RomError: the discriminant of each variant
RomDiscriminant(r) ==
    CASE r = "InvalidMessage" -> 5
      [] r = "FailedToAct" -> 6
      [] r = "InvalidCrc" -> 7
      [] r = "FlashWriteError" -> 8
      [] r = "FlashReadError" -> 9
      [] r = "FlashReadLengthError" -> 10
      [] r = "DeflateError" -> 11
      [] r = "Other" -> 255

----------------------------------------------------------------------------
(* Partition table diagnostic.                                             *)

\* the partition table text of a table given by its rows: a row of n fields
\* of w bytes each is written field by field with "," between the fields,
\* the rows are separated by "\n", and a last "\n" may follow
Repeat(ch, k) == [i \in 1..k |-> ch]

RECURSIVE RowText(_, _)
RowText(n, w) ==
    IF n = 1 THEN Repeat("a", w)
    ELSE RowText(n - 1, w) \o <<",">> \o Repeat("a", w)

RECURSIVE Render(_, _)
Render(rows, nl) ==
    IF Len(rows) = 0 THEN <<>>
    ELSE IF Len(rows) = 1
         THEN RowText(rows[1].n, rows[1].w) \o (IF nl THEN <<"\n">> ELSE <<>>)
         ELSE RowText(rows[1].n, rows[1].w) \o <<"\n">> \o Render(Tail(rows), nl)

\* the index of the k-th "\n" of s (0 for k = 0)
NthNewline(s, k) ==
    IF k = 0 THEN 0
    ELSE CHOOSE i \in 1..Len(s) :
            s[i] = "\n" /\ Cardinality({j \in 1..i : s[j] = "\n"}) = k

NumNewlines(s) == Cardinality({j \in 1..Len(s) : s[j] = "\n"})

\* str::lines(): the text between line feeds, without the line feed and
\* without a "\r" before it; no last line after a final line feed
NumLines(s) ==
    LET n == NumNewlines(s)
    IN  IF Len(s) > NthNewline(s, n) THEN n + 1 ELSE n

LineStart(s, k) == NthNewline(s, k - 1) + 1

LineEnd(s, k) ==
    LET e == IF k <= NumNewlines(s) THEN NthNewline(s, k) - 1 ELSE Len(s)
    IN  IF k <= NumNewlines(s) /\ e >= LineStart(s, k) /\ s[e] = "\r"
        THEN e - 1 ELSE e

Lines(s) == [k \in 1..NumLines(s) |-> SubSeq(s, LineStart(s, k), LineEnd(s, k))]

\* csv::Error as PartitionTableError::new reads it: its kind, the position
\* (if any) and the two record lengths or the inner message
CsvError(kind, hasPos, byte, line, expected_len, len, msg) ==
    [kind |-> kind, hasPos |-> hasPos, byte |-> byte, line |-> line,
     expected_len |-> expected_len, len |-> len, msg |-> msg]

NoCsvError == CsvError("-", FALSE, 0, 0, 0, 0, "-")

\* csv::Position::new(): byte 0, line 1
PositionNew == [byte |-> 0, line |-> 1]

\* fn pos_to_offset(pos)
pos_to_offset(pos) == pos.byte

\* the diagnostic of a parse that succeeded, and of a constructor that panicked
NoDiag == [source |-> <<>>, err_span |-> [offset |-> 0, len |-> 0],
           hint |-> <<"-">>, error |-> NoCsvError]

PanicDiag == [source |-> <<>>, err_span |-> [offset |-> 0, len |-> 0],
              hint |-> <<"PANIC">>, error |-> NoCsvError]

\* mutant: the two lengths of the hint are swapped
PartitionTableErrorNew_Swapped(error, src) ==
    LET err_pos == IF error.kind \in {"Deserialize", "UnequalLengths"} /\ error.hasPos
                   THEN [byte |-> error.byte, line |-> error.line]
                   ELSE PositionNew
        hint == CASE error.kind = "Deserialize" -> <<error.msg>>
                  [] error.kind = "UnequalLengths" ->
                        <<"record has ", error.expected_len,
                          " fields, but the previous record has ", error.len,
                          " fields">>
                  [] OTHER -> <<>>
        lines == Lines(src)
    IN  IF err_pos.line - 1 < 0 \/ err_pos.line - 1 >= Len(lines)
        THEN PanicDiag
        ELSE [source |-> src,
              err_span |-> [offset |-> pos_to_offset(err_pos),
                            len |-> Len(lines[err_pos.line])],
              hint |-> hint,
              error |-> error]

\* PartitionTableError::new(error, source)
PartitionTableErrorNew(error, src) ==
    LET err_pos == IF error.kind \in {"Deserialize", "UnequalLengths"} /\ error.hasPos
                   THEN [byte |-> error.byte, line |-> error.line]
                   ELSE PositionNew
        hint == CASE error.kind = "Deserialize" -> <<error.msg>>
                  [] error.kind = "UnequalLengths" ->
                        <<"record has ", error.len,
                          " fields, but the previous record has ", error.expected_len,
                          " fields">>
                  [] OTHER -> <<>>
        lines == Lines(src)
    IN  IF err_pos.line - 1 < 0 \/ err_pos.line - 1 >= Len(lines)
        THEN PanicDiag
        ELSE [source |-> src,
              err_span |-> [offset |-> pos_to_offset(err_pos),
                            len |-> Len(lines[err_pos.line])],
              hint |-> hint,
              error |-> error]

\* Partition table validator: one record per line, the fields of a record
\* separated by ","
FieldCount(row) == Cardinality({i \in 1..Len(row) : row[i] = ","}) + 1

BadRows(s) ==
    {k \in 2..NumLines(s) : FieldCount(Lines(s)[k]) # FieldCount(Lines(s)[1])}

Min(S) == CHOOSE x \in S : \A y \in S : x <= y

\* the error of the first row whose field count is not the first row's: its
\* position is where that row begins (byte offset from 0, line from 1)
UnequalLengthsAt(s, k) ==
    CsvError("UnequalLengths", TRUE, LineStart(s, k) - 1, k,
             FieldCount(Lines(s)[1]), FieldCount(Lines(s)[k]), "-")

\* the error of a row whose fields do not deserialize
DeserializeAt(s, k, msg) ==
    CsvError("Deserialize", TRUE, LineStart(s, k) - 1, k, 0, 0, msg)

----------------------------------------------------------------------------
(* Error pipeline: a lower-layer error is converted into a top-level       *)
(* Error, and the caller applies flashing() and for_command() to it.       *)

Op(op, cmd) == [op |-> op, cmd |-> cmd]

ErrIdle == low = NoLow /\ res = Pending /\ prev = Pending /\ ops = <<>>
RomIdle == raw = 0 /\ decoded = "-"
TblIdle ==
    /\ table = <<>> /\ trailing = FALSE /\ source = <<>>
    /\ csvErr = NoCsvError /\ diag = NoDiag
EngIdle ==
    /\ estate = "Idle" /\ ecmd = "Sync" /\ ephase = "connecting" /\ budget = 1
    /\ sent = 0 /\ log = <<>> /\ surfaced = Pending

\* either a lower-layer error about to be converted, or any outcome
ErrInit ==
    /\ \/ low \in LowErrors /\ res = Pending
       \/ low = NoLow /\ res \in Outcomes
    /\ prev = res
    /\ ops = <<>>

\* `?` on a lower-layer error: Error::from(err)
Convert ==
    /\ res = Pending
    /\ res' = ErrorFrom(low)
    /\ prev' = res
    /\ UNCHANGED <<low, ops>>

\* result.flashing()
Flashing ==
    /\ res.t \notin {"Pending", "Panic"}
    /\ Len(ops) < MaxOps
    /\ res' = flashing(res)
    /\ prev' = res
    /\ ops' = Append(ops, Op("flashing", "-"))
    /\ UNCHANGED low

\* result.for_command(c)
ForCommand(c) ==
    /\ res.t \notin {"Pending", "Panic"}
    /\ Len(ops) < MaxOps
    /\ res' = for_command(res, c)
    /\ prev' = res
    /\ ops' = Append(ops, Op("for_command", c))
    /\ UNCHANGED low

Init == ErrInit /\ RomIdle /\ TblIdle /\ EngIdle

Next ==
    \/ Convert /\ UNCHANGED <<romVars, tblVars, engVars>>
    \/ Flashing /\ UNCHANGED <<romVars, tblVars, engVars>>
    \/ \E c \in Commands : ForCommand(c) /\ UNCHANGED <<romVars, tblVars, engVars>>

Spec == Init /\ [][Next]_vars

----------------------------------------------------------------------------
(* Device status decoder applied to a status byte.                         *)

RomInit == raw \in 0..255 /\ decoded = "-"

Decode ==
    /\ decoded = "-"
    /\ decoded' = RomErrorFrom(raw)
    /\ UNCHANGED raw

InitRom == RomInit /\ ErrIdle /\ TblIdle /\ EngIdle

NextRom == Decode /\ UNCHANGED <<errVars, tblVars, engVars>>

SpecRom == InitRom /\ [][NextRom]_vars

----------------------------------------------------------------------------
(* Partition table validation.                                             *)

\* the byte lengths of a field: empty or not
FieldLens == {0, 1}

\* a row of n fields of w bytes each; an empty line is no record
Rows == {r \in [n : 1..MaxFields, w : FieldLens] : r.n * r.w + r.n - 1 >= 1}

Tables == UNION {[1..k -> Rows] : k \in 1..MaxRows}

TblInit ==
    /\ table \in Tables
    /\ trailing \in BOOLEAN
    /\ source = Render(table, trailing)
    /\ csvErr = NoCsvError
    /\ diag = NoDiag

\* the validator on a table whose rows all deserialize: the first row whose
\* field count differs from the first row's fails the validation
Validate ==
    /\ diag = NoDiag /\ csvErr = NoCsvError
    /\ BadRows(source) # {}
    /\ csvErr' = UnequalLengthsAt(source, Min(BadRows(source)))
    /\ diag' = PartitionTableErrorNew(csvErr', source)
    /\ UNCHANGED <<table, trailing, source>>

\* the validator on a table one of whose rows does not deserialize, no row
\* before it having a wrong field count
ValidateDeserialize(k) ==
    /\ diag = NoDiag /\ csvErr = NoCsvError
    /\ k \in 1..NumLines(source)
    /\ \A j \in BadRows(source) : k < j
    /\ csvErr' = DeserializeAt(source, k, "invalid digit found in string")
    /\ diag' = PartitionTableErrorNew(csvErr', source)
    /\ UNCHANGED <<table, trailing, source>>

InitTable == TblInit /\ ErrIdle /\ RomIdle /\ EngIdle

NextTable ==
    \/ Validate /\ UNCHANGED <<errVars, romVars, engVars>>
    \/ \E k \in 1..MaxRows : ValidateDeserialize(k) /\ UNCHANGED <<errVars, romVars, engVars>>

SpecTable == InitTable /\ [][NextTable]_vars

----------------------------------------------------------------------------
(* Command engine: one instance per command invocation.                    *)
(* Idle -> Sent -> AwaitingResponse -> Succeeded | Retrying | Failed.      *)

Phases == {"connecting", "flashing"}

\* what an attempt can end in: a channel fault, or a response with a status
ChannelFaults == {"timeout", "malformed", "oversized"}

Attempt(kind, status) == [kind |-> kind, status |-> status]

\* the two transforms the caller applies before propagating an outcome:
\* the phase tag, then the command in flight
Surface(r, phase, command) ==
    for_command(IF phase = "flashing" THEN flashing(r) ELSE r, command)

\* the read timeout of the serial port as the io::Error it is raised as
TimedOutIo == LowError("io", "-", "-", "TimedOut", "d1")

EngInit ==
    /\ estate = "Idle"
    /\ ecmd \in Commands
    /\ ephase \in Phases
    /\ budget \in 1..MaxBudget
    /\ sent = 0
    /\ log = <<>>
    /\ surfaced = Pending

\* Idle -> Sent: encode the command, write the frame
Dispatch ==
    /\ estate = "Idle"
    /\ estate' = "Sent"
    /\ sent' = sent + 1
    /\ UNCHANGED <<ecmd, ephase, budget, log, surfaced>>

\* Sent -> AwaitingResponse
Await ==
    /\ estate = "Sent"
    /\ estate' = "AwaitingResponse"
    /\ UNCHANGED <<ecmd, ephase, budget, sent, log, surfaced>>

\* AwaitingResponse -> Succeeded: a valid response with status 0
Succeed ==
    /\ estate = "AwaitingResponse"
    /\ estate' = "Succeeded"
    /\ log' = Append(log, Attempt("status", 0))
    /\ surfaced' = Surface(Ok, ephase, ecmd)
    /\ UNCHANGED <<ecmd, ephase, budget, sent>>

\* AwaitingResponse -> Failed: a well-formed response with a non-success
\* status; never retried
Reject(status) ==
    /\ estate = "AwaitingResponse"
    /\ status # 0
    /\ estate' = "Failed"
    /\ log' = Append(log, Attempt("status", status))
    /\ surfaced' = Surface(ErrRomError(RomErrorFrom(status)), ephase, ecmd)
    /\ UNCHANGED <<ecmd, ephase, budget, sent>>

\* AwaitingResponse -> Retrying: the deadline elapsed or a malformed or
\* oversized frame arrived, and the retry budget is not exhausted
Fault(f) ==
    /\ estate = "AwaitingResponse"
    /\ sent < budget
    /\ estate' = "Retrying"
    /\ log' = Append(log, Attempt(f, 0))
    /\ UNCHANGED <<ecmd, ephase, budget, sent, surfaced>>

\* AwaitingResponse -> Failed: the same with the retry budget exhausted;
\* surfaces a timeout annotated with the command
Exhaust(f) ==
    /\ estate = "AwaitingResponse"
    /\ sent >= budget
    /\ estate' = "Failed"
    /\ log' = Append(log, Attempt(f, 0))
    /\ surfaced' = Surface(ErrorFrom(TimedOutIo), ephase, ecmd)
    /\ UNCHANGED <<ecmd, ephase, budget, sent>>

\* Retrying -> Sent: the frame is written again
Retry ==
    /\ estate = "Retrying"
    /\ estate' = "Sent"
    /\ sent' = sent + 1
    /\ UNCHANGED <<ecmd, ephase, budget, log, surfaced>>

InitEngine == EngInit /\ ErrIdle /\ RomIdle /\ TblIdle

NextEngine ==
    \/ Dispatch /\ UNCHANGED <<errVars, romVars, tblVars>>
    \/ Await /\ UNCHANGED <<errVars, romVars, tblVars>>
    \/ Succeed /\ UNCHANGED <<errVars, romVars, tblVars>>
    \/ \E b \in 1..255 : Reject(b) /\ UNCHANGED <<errVars, romVars, tblVars>>
    \/ \E f \in ChannelFaults : Fault(f) /\ UNCHANGED <<errVars, romVars, tblVars>>
    \/ \E f \in ChannelFaults : Exhaust(f) /\ UNCHANGED <<errVars, romVars, tblVars>>
    \/ Retry /\ UNCHANGED <<errVars, romVars, tblVars>>

SpecEngine == InitEngine /\ [][NextEngine]_vars

----------------------------------------------------------------------------
(* Properties.                                                             *)

LastOp == ops[Len(ops)]

IsTimeoutErr(r) == r.t \in {"Connection", "Flashing"} /\ r.ce.v = "Timeout"

PhaseTag(r) == IF r.t \in {"Connection", "Flashing"} THEN r.t ELSE "none"

ForCommandOps == {i \in 1..Len(ops) : ops[i].op = "for_command"}

Max(S) == CHOOSE x \in S : \A y \in S : y <= x

\* C1: the device status decoder is total over the 256 byte values: 0x05 to
\* 0x0b decode each to its own named reason, every other byte to Other.
C1_DecoderTotal ==
    decoded # "-" =>
        /\ decoded \in RomErrors
        /\ (raw = 5 => decoded = "InvalidMessage")
        /\ (raw = 6 => decoded = "FailedToAct")
        /\ (raw = 7 => decoded = "InvalidCrc")
        /\ (raw = 8 => decoded = "FlashWriteError")
        /\ (raw = 9 => decoded = "FlashReadError")
        /\ (raw = 10 => decoded = "FlashReadLengthError")
        /\ (raw = 11 => decoded = "DeflateError")
        /\ (raw \in 5..11 => RomDiscriminant(decoded) = raw)
        /\ (raw \notin 5..11 => decoded = "Other")

C1_Witness == raw = 10 /\ decoded = "FlashReadLengthError"

\* C2: for_command changes only timeouts: a timeout under either phase tag
\* comes back under the same tag annotated with exactly the given command,
\* every other outcome comes back unchanged.
C2_ForCommandOnlyTimeouts ==
    (Len(ops) > 0 /\ LastOp.op = "for_command") =>
        IF prev.t \in {"Connection", "Flashing"} /\ prev.ce.v = "Timeout"
        THEN res = Result(prev.t, Timeout(LastOp.cmd), "-")
        ELSE res = prev

C2_Witness ==
    /\ Len(ops) > 0 /\ LastOp.op = "for_command"
    /\ prev = ErrFlashing(Timeout("Sync"))
    /\ res = ErrFlashing(Timeout("FlashData"))

\* C3: flashing() is idempotent: a second flashing() right after a first one
\* returns the outcome as it is, and a Flashing-tagged error passes unchanged.
C3_FlashingIdempotent ==
    /\ (Len(ops) >= 2 /\ LastOp.op = "flashing" /\ ops[Len(ops) - 1].op = "flashing")
          => res = prev
    /\ (Len(ops) >= 1 /\ LastOp.op = "flashing" /\ prev.t = "Flashing")
          => res = prev

C3_Witness ==
    /\ low # NoLow
    /\ Len(ops) = 2 /\ ops[1].op = "flashing" /\ ops[2].op = "flashing"
    /\ res.t = "Flashing" /\ prev.t = "Flashing"

\* C4 as claimed: every top-level Connection or Flashing timeout that comes
\* from the conversions carries Some(command).
C4_AnnotationAlwaysPresent ==
    (low # NoLow /\ IsTimeoutErr(res)) => res.ce.cmd # None

\* C4 as amended: a top-level timeout carries the command of the latest
\* for_command applied to it; a timeout coming from the conversions carries
\* no command until for_command is applied.
C4_AnnotationAfterForCommand ==
    IsTimeoutErr(res) =>
        IF ForCommandOps # {}
        THEN res.ce.cmd = ops[Max(ForCommandOps)].cmd
        ELSE low # NoLow => res.ce.cmd = None

C4_Witness ==
    /\ low # NoLow
    /\ Len(ops) = 2 /\ ops[1].op = "flashing" /\ ops[2].op = "for_command"
    /\ res = ErrFlashing(Timeout("FlashBegin"))

\* C5: every lower-layer error handed to a conversion yields one variant of
\* the closed set of connection errors; the conversion never panics.
C5_ClassifierTotal ==
    (low # NoLow /\ res # Pending) =>
        /\ res.t \in {"Connection", "Flashing"}
        /\ res.ce.v \in ConnectionVariants

\* the io::ErrorKind a lower-layer error carries, directly or wrapped
CarriedIoKind(err) ==
    CASE err.layer = "io" -> err.io
      [] err.layer = "serial" /\ err.kind = "Io" -> err.io
      [] err.layer = "slip" /\ err.variant = "ReadError" -> err.io
      [] err.layer = "binread" /\ err.variant = "Io" -> err.io
      [] OTHER -> "-"

\* C6: the classifier maps by class: timed out to Timeout with no command,
\* not found and no device to DeviceNotFound, any other io or serial class to
\* Serial with the underlying error, malformed frame to FramingError, frame
\* too large to OverSizedPacket; the same for a wrapped io error.
C6_ClassByKind ==
    (low # NoLow /\ res.t = "Connection" /\ ops = <<>>) =>
        /\ CarriedIoKind(low) = "TimedOut" => res.ce = Timeout(None)
        /\ CarriedIoKind(low) = "NotFound" => res.ce = DeviceNotFound
        /\ (low.layer = "serial" /\ low.kind = "NoDevice") => res.ce = DeviceNotFound
        /\ (low.layer = "slip" /\ low.variant = "FramingError") => res.ce = FramingError
        /\ (low.layer = "slip" /\ low.variant = "OversizedPacket")
              => res.ce = OverSizedPacket
        /\ (CarriedIoKind(low) \in IoKinds \ {"TimedOut", "NotFound"}
              \/ (low.layer = "serial" /\ low.kind = "InvalidInput"))
              => /\ res.ce.v = "Serial"
                 /\ res.ce.err.kind = (IF low.layer = "serial" THEN low.kind ELSE "Io")
                 /\ res.ce.err.io = low.io
                 /\ res.ce.err.desc = low.desc

C6_Witness ==
    /\ low.layer = "slip" /\ low.variant = "ReadError" /\ low.io = "TimedOut"
    /\ res = ErrConnection(Timeout(None))

\* the byte length of a row of the table, and the byte offset it begins at
RowLen(r) == r.n * r.w + r.n - 1

RECURSIVE RowOffset(_)
RowOffset(k) == IF k = 1 THEN 0 ELSE RowOffset(k - 1) + RowLen(table[k - 1]) + 1

OffendingRows == {k \in 2..Len(table) : table[k].n # table[1].n}

\* C7: a first row of M fields and a first offending row of N fields give the
\* hint "record has N fields, but the previous record has M fields", a span
\* from the byte the offending row begins at, as long as that line, and the
\* whole source text.
C7_UnequalLengthsDiagnostic ==
    csvErr.kind = "UnequalLengths" =>
        /\ OffendingRows # {}
        /\ LET k == Min(OffendingRows)
           IN  /\ diag.hint = <<"record has ", table[k].n,
                                " fields, but the previous record has ", table[1].n,
                                " fields">>
               /\ diag.err_span = [offset |-> RowOffset(k), len |-> RowLen(table[k])]
               /\ diag.source = source
               /\ Len(diag.source) > 0

C7_Witness ==
    /\ Len(table) = 2
    /\ table[1] = [n |-> 5, w |-> 1] /\ table[2] = [n |-> 4, w |-> 1]
    /\ diag.hint = <<"record has ", 4, " fields, but the previous record has ", 5,
                     " fields">>
    /\ diag.err_span = [offset |-> 10, len |-> 7]

AllTimeouts == \A i \in 1..Len(log) : log[i].kind = "timeout"

\* C8: with max-attempts 3 and every attempt timing out the command is sent
\* 3 times, never a 4th, and the engine fails with a timeout annotated with
\* the command.
C8_RetryExhaustion ==
    (budget = 3 /\ AllTimeouts) =>
        /\ sent <= 3
        /\ estate = "Failed" =>
              /\ sent = 3 /\ Len(log) = 3
              /\ surfaced.t \in {"Connection", "Flashing"}
              /\ surfaced.ce = Timeout(ecmd)

C8_Witness ==
    /\ estate = "Failed" /\ budget = 3 /\ AllTimeouts /\ sent = 3
    /\ ephase = "flashing" /\ surfaced = ErrFlashing(Timeout(ecmd))

\* C9: a response with a non-success status ends the attempts at once: it is
\* the last attempt, no frame is sent after it, and the error surfaced is the
\* decoded device error (0x07: InvalidCrc), not a connection error.
C9_NoRetryOnRejection ==
    \A i \in 1..Len(log) :
        (log[i].kind = "status" /\ log[i].status # 0) =>
            /\ i = Len(log)
            /\ estate = "Failed"
            /\ sent = i
            /\ surfaced.t = "RomError"
            /\ log[i].status = 7 => surfaced = ErrRomError("InvalidCrc")

C9_Witness ==
    /\ estate = "Failed" /\ budget = 3 /\ sent = 1
    /\ log = <<Attempt("status", 7)>>
    /\ surfaced = ErrRomError("InvalidCrc")

\* C10: the phase tag changes only from Connection to Flashing, flashing()
\* keeps the inner connection outcome, and an outcome that is no connection
\* error is never turned into one.
C10_PhaseTagOnce ==
    [][res.t \notin {"Pending", "Panic"} =>
          /\ PhaseTag(res') # PhaseTag(res)
                => PhaseTag(res) = "Connection" /\ PhaseTag(res') = "Flashing"
          /\ (ops' # ops /\ ops'[Len(ops')].op = "flashing") => res'.ce = res.ce
          /\ PhaseTag(res) = "none" => res' = res]_vars

C10_Witness ==
    /\ low = NoLow
    /\ Len(ops) = 3 /\ ops[1].op = "for_command" /\ ops[2].op = "flashing"
    /\ ops[3].op = "for_command"
    /\ prev = ErrFlashing(Timeout(ops[1].cmd))
    /\ res = ErrFlashing(Timeout(ops[3].cmd))
    /\ ops[1].cmd # ops[3].cmd

====
